---- MODULE Spec2Model ----
(***************************************************************************)
(* Model of the tiered (primary / archive) query federation of the         *)
(* distribution back end: utils/unifiedQuery.js, utils/archiveQuery.js and *)
(* the sales archiving script scripts/archiveSales.js.                     *)
(*                                                                         *)
(* Dates are counted in whole clock units; the clock reads `now` and one   *)
(* unit is what setFullYear(getFullYear() - 1) subtracts.  Sale i of the   *)
(* primary store was sold at date i.                                       *)
(***************************************************************************)
EXTENDS Integers, Sequences, FiniteSets, TLC

\* ------------------------------------------------------------------ bounds
NumRecords == 3
MaxTicks == 1
MaxLimit == 2
MaxDup == 1
MaxBatch == 2
MaxArchiveLimit == 2
MaxDealer == 1
MaxResolve == 2
MaxKeys == 2
MaxValue == 2
MaxTtl == 2
TickMs == 500
MaxClockMs == 1500

\* ------------------------------------------------------- program constants
ARCHIVE_THRESHOLD_YEARS == 2
DefaultYears == 2
SplitThresholdYears == 2
MsPerSecond == 1000
NoDate == 0
NoId == 0

NowInit == ARCHIVE_THRESHOLD_YEARS + 2
MaxNow == NowInit + MaxTicks
Dates == 1..NumRecords
MaxCold == NumRecords + MaxDup

VARIABLES
  now,              \* the wall clock read by new Date()
  hot,              \* primary database: collection of Sale documents
  cold,             \* archive database: collection of SaleArchive documents
  apc,              \* archiveSales: position in the script
  cutoffDate,       \* archiveSales: cutoffDate
  batch,            \* archiveSales: the batch being processed
  bidx,             \* archiveSales: index of the sale of the batch in the for loop
  optBatchSize,     \* archiveSales: options.batchSize
  batchSize,        \* archiveSales: batchSize of the current pass of the while loop
  processed,        \* archiveSales: processed
  processLimit,     \* archiveSales: processLimit
  pc,               \* queryUnifiedSales: position in the call
  query,            \* queryUnifiedSales: the caller's query.saleDate
  sort,             \* options.sort.saleDate: -1 descending, 1 ascending
  skip,             \* options.skip
  limit,            \* options.limit
  queryArchive,     \* queryUnifiedSales: queryArchive
  queryPrimary,     \* queryUnifiedSales: queryPrimary
  thrArchive,       \* threshold that shouldQueryArchive computed
  thrPrimary,       \* threshold that shouldQueryPrimary computed
  primarySent,      \* the filter passed to Sale.find / Sale.countDocuments
  archiveSent,      \* the filter passed to queryArchiveSales / countArchiveSales
  primaryResults,
  archiveResults,
  primaryCount,
  archiveCount,
  threw,            \* the store operations of this call that raised an error
  result,           \* the object the call returned
  pages,            \* caller: the data of the pages fetched before this call
  prev,             \* caller: what the previous, identical call returned
  splitCaller,      \* splitQueryByDate: the caller's filter object
  splitClock,       \* splitQueryByDate: the clock at its readings, in order
  splitReturned,    \* splitQueryByDate: the object it returned
  resolveCall,      \* queryArchive*: the record kind, the batch found and options.populate
  lookups,          \* queryArchive*: the lookups issued to the main database
  routeCaller,      \* queryUnifiedPayments / DealerRequests: the date fields of the query
  routePlan,        \* queryUnifiedPayments / DealerRequests: the tiers decided
  payHot,           \* primary database: collection of Payment documents
  payCold,          \* archive database: collection of PaymentArchive documents
  store,            \* Cache: this.store, key -> item
  timers,           \* Cache: this.timers, key -> timer handle
  timeouts,         \* the timers of setTimeout that are scheduled
  dateNow,          \* Date.now(), in milliseconds
  lastSet,          \* history: the latest set of each key not deleted since
  got               \* history: the key and the value of the get just made

storeVars == <<hot, cold>>
archVars == <<apc, cutoffDate, batch, bidx, optBatchSize, batchSize, processed,
              processLimit>>
planVars == <<queryArchive, queryPrimary, thrArchive, thrPrimary>>
argVars == <<query, sort, skip, limit>>
localVars == <<primarySent, archiveSent, primaryResults, archiveResults,
               primaryCount, archiveCount, threw>>
callerVars == <<pages, prev>>
splitVars == <<splitCaller, splitClock, splitReturned>>
resolveVars == <<resolveCall, lookups>>
routeVars == <<routeCaller, routePlan>>
payVars == <<payHot, payCold>>
cacheVars == <<store, timers, timeouts, dateNow, lastSet, got>>
helperVars == <<splitVars, resolveVars, routeVars, payVars, cacheVars>>
unifiedVars == <<storeVars, archVars, pc, argVars, planVars, localVars, result,
                 callerVars>>
vars == <<now, storeVars, archVars, pc, argVars, planVars, localVars,
          result, callerVars, helperVars>>

\* ---------------------------------------------------------------- helpers
Min(a, b) == IF a < b THEN a ELSE b
Max(a, b) == IF a > b THEN a ELSE b

\* new Date(); setFullYear(getFullYear() - ARCHIVE_THRESHOLD_YEARS)
getArchiveThresholdDate(clock) == clock - ARCHIVE_THRESHOLD_YEARS

\* The saleDate entry of a query object.
AbsentQuery == [kind |-> "absent", date |-> NoDate,
                gte |-> NoDate, lte |-> NoDate, gt |-> NoDate, lt |-> NoDate]
DateQuery(d) == [AbsentQuery EXCEPT !.kind = "date", !.date = d]
\* The field is in the query with a value that is not truthy: null, undefined.
FalsyQuery == [AbsentQuery EXCEPT !.kind = "falsy"]
OpsQuery(ge, le, g, l) ==
  [AbsentQuery EXCEPT !.kind = "ops", !.gte = ge, !.lte = le, !.gt = g, !.lt = l]

NullRange == [isNull |-> TRUE, startDate |-> NoDate, endDate |-> NoDate]

\* A date extractor in which the inclusive operator of a bound wins.
extractDateRangeInclusive(q) ==
  IF q.kind \in {"absent", "falsy"} THEN NullRange
  ELSE IF q.kind = "date"
    THEN [isNull |-> FALSE, startDate |-> q.date, endDate |-> q.date]
    ELSE [isNull |-> FALSE,
          startDate |-> IF q.gte # NoDate THEN q.gte ELSE q.gt,
          endDate |-> IF q.lte # NoDate THEN q.lte ELSE q.lt]

extractDateRange(q) ==
  IF q.kind \in {"absent", "falsy"} THEN NullRange
  ELSE IF q.kind = "date"
    THEN [isNull |-> FALSE, startDate |-> q.date, endDate |-> q.date]
    ELSE [isNull |-> FALSE,
          startDate |-> IF q.gt # NoDate THEN q.gt ELSE q.gte,
          endDate |-> IF q.lt # NoDate THEN q.lt ELSE q.lte]

\* A routing test that counts a bound equal to the threshold as archived.
shouldQueryArchiveInclusive(startDate, endDate, threshold) ==
  IF startDate = NoDate /\ endDate = NoDate THEN TRUE
  ELSE IF endDate # NoDate /\ endDate <= threshold THEN TRUE
  ELSE IF startDate # NoDate /\ startDate <= threshold THEN TRUE
  ELSE FALSE

shouldQueryArchive(startDate, endDate, threshold) ==
  IF startDate = NoDate /\ endDate = NoDate THEN TRUE
  ELSE IF endDate # NoDate /\ endDate < threshold THEN TRUE
  ELSE IF startDate # NoDate /\ startDate < threshold THEN TRUE
  ELSE FALSE

\* A routing test that counts a bound equal to the threshold as not recent.
shouldQueryPrimaryStrict(startDate, endDate, threshold) ==
  IF startDate = NoDate /\ endDate = NoDate THEN TRUE
  ELSE IF startDate # NoDate /\ startDate > threshold THEN TRUE
  ELSE IF endDate # NoDate /\ endDate > threshold THEN TRUE
  ELSE FALSE

shouldQueryPrimary(startDate, endDate, threshold) ==
  IF startDate = NoDate /\ endDate = NoDate THEN TRUE
  ELSE IF startDate # NoDate /\ startDate >= threshold THEN TRUE
  ELSE IF endDate # NoDate /\ endDate >= threshold THEN TRUE
  ELSE FALSE

\* The store's evaluation of a filter on a document's saleDate.
Matches(doc, q) ==
  CASE q.kind = "absent" -> TRUE
    [] q.kind = "falsy" -> FALSE
    [] q.kind = "date" -> doc.saleDate = q.date
    [] OTHER -> /\ (q.gte # NoDate => doc.saleDate >= q.gte)
                /\ (q.lte # NoDate => doc.saleDate <= q.lte)
                /\ (q.gt # NoDate => doc.saleDate > q.gt)
                /\ (q.lt # NoDate => doc.saleDate < q.lt)

Matching(coll, q) == {doc \in coll : Matches(doc, q)}

\* A count taken after the page size is applied.
countDocumentsOfPage(coll, q) == Min(Cardinality(Matching(coll, q)), limit)

\* countDocuments(query)
countDocuments(coll, q) == Cardinality(Matching(coll, q))

\* A document as the caller sees it.  A primary document has no originalId
\* and no _originalId.  (archivedAt, which no code reads, is left out.)
PrimaryDoc(s) == [_id |-> s._id, saleDate |-> s.saleDate, originalId |-> NoId,
                  _originalId |-> NoId]
\* An archive document read without its originalId.
ArchiveDocBare(a) == [_id |-> a._id, saleDate |-> a.saleDate, originalId |-> NoId,
                      _originalId |-> NoId]

ArchiveDoc(a) == [_id |-> a._id, saleDate |-> a.saleDate, originalId |-> a.originalId,
                  _originalId |-> NoId]

normalizeArchiveRecord(record) ==
  IF record.originalId # NoId /\ record._originalId = NoId
    THEN [record EXCEPT !._originalId = record.originalId]
    ELSE record

\* d1 comes before d2 under .sort({saleDate: dir}); documents of equal
\* saleDate come in the order tie picks (the store promises none).
Before(d1, d2, dir, tie) ==
  IF d1.saleDate # d2.saleDate
    THEN (IF dir = 1 THEN d1.saleDate < d2.saleDate ELSE d1.saleDate > d2.saleDate)
    ELSE (IF tie = 1 THEN d1._id < d2._id ELSE d1._id > d2._id)

RECURSIVE SortDocs(_, _, _)
SortDocs(docs, dir, tie) ==
  IF docs = {} THEN <<>>
  ELSE LET first == CHOOSE d \in docs :
                      \A o \in docs \ {d} : Before(d, o, dir, tie)
       IN <<first>> \o SortDocs(docs \ {first}, dir, tie)

\* s.skip(n)
Skip(s, n) == IF n >= Len(s) THEN <<>> ELSE SubSeq(s, n + 1, Len(s))
\* s.limit(n); a limit of 0 is no limit
Limit(s, n) == IF n = 0 \/ n >= Len(s) THEN s ELSE SubSeq(s, 1, n)

\* find(q).sort(dir).skip(sk).limit(lim).exec()
Find(docs, q, dir, tie, sk, lim) ==
  Limit(Skip(SortDocs(Matching(docs, q), dir, tie), sk), lim)

\* Array.prototype.sort((a, b) => dateB - dateA): stable, descending.
RECURSIVE InsertDesc(_, _)
InsertDesc(sorted, d) ==
  IF sorted = <<>> THEN <<d>>
  ELSE IF Head(sorted).saleDate >= d.saleDate
    THEN <<Head(sorted)>> \o InsertDesc(Tail(sorted), d)
    ELSE <<d>> \o sorted

RECURSIVE SortDescStable(_)
SortDescStable(s) ==
  IF s = <<>> THEN <<>>
  ELSE InsertDesc(SortDescStable(SubSeq(s, 1, Len(s) - 1)), s[Len(s)])

\* mergedResults.splice(limit) when mergedResults.length > limit
Splice(s, n) == IF Len(s) > n THEN SubSeq(s, 1, n) ELSE s

archiveLimit(qPrimary, lim, nPrimary) ==
  IF qPrimary THEN Max(0, lim - nPrimary) ELSE lim

archiveSkip(qPrimary, lim, nPrimary, sk) ==
  IF qPrimary /\ nPrimary < lim THEN 0 ELSE sk

mergeResults(qArchive, qPrimary, pRes, aRes, lim) ==
  LET merged == pRes \o aRes
  IN IF qArchive /\ qPrimary /\ Len(merged) > 0
       THEN Splice(SortDescStable(merged), lim)
       ELSE merged

NoResult == [data |-> <<>>, total |-> 0, fromPrimary |-> 0, fromArchive |-> 0,
             primaryCount |-> 0, archiveCount |-> 0]
NoPrev == [set |-> FALSE, total |-> 0, fromPrimary |-> 0, fromArchive |-> 0,
           queryArchive |-> FALSE, queryPrimary |-> FALSE]

\* ------------------------------------------ unifiedQuery.js, splitQueryByDate
\* A filter object: one field that is not the date field, and the date field.
Filter(dealer, saleDate) == [dealer |-> dealer, saleDate |-> saleDate]

NoFilter == Filter(0, AbsentQuery)
NoClock == <<0, 0, 0, 0>>
NoSplit == [set |-> FALSE, primaryQuery |-> NoFilter, archiveQuery |-> NoFilter,
            queryBoth |-> FALSE]

\* An archive upper bound that keeps the caller's end date.
splitArchiveUpperEnd(endDate, threshold) == endDate

\* dateRange.endDate < threshold ? dateRange.endDate : threshold
splitArchiveUpper(endDate, threshold) ==
  IF endDate < threshold THEN endDate ELSE threshold

\* dateRange.startDate < threshold ? threshold : dateRange.startDate
splitPrimaryLower(startDate, threshold) ==
  IF startDate < threshold THEN threshold ELSE startDate

\* splitQueryByDate(query, 'saleDate').  clock holds what new Date() gives
\* at the four places that read it: in shouldQueryArchive, in
\* shouldQueryPrimary, for the function's own threshold, and in the second
\* shouldQueryArchive of the one-store case.
splitQueryByDate(q, clock) ==
  LET dateRange == extractDateRange(q.saleDate)
      startDate == dateRange.startDate
      endDate == dateRange.endDate
      queryBoth ==
        /\ shouldQueryArchive(startDate, endDate, getArchiveThresholdDate(clock[1]))
        /\ shouldQueryPrimary(startDate, endDate, getArchiveThresholdDate(clock[2]))
      threshold == clock[3] - SplitThresholdYears
      primaryDate ==
        IF ~dateRange.isNull /\ queryBoth
          THEN IF startDate # NoDate /\ endDate # NoDate
                 THEN OpsQuery(splitPrimaryLower(startDate, threshold), endDate,
                               NoDate, NoDate)
               ELSE IF startDate # NoDate
                 THEN OpsQuery(splitPrimaryLower(startDate, threshold), NoDate,
                               NoDate, NoDate)
               ELSE IF endDate # NoDate
                 THEN OpsQuery(NoDate, endDate, NoDate, NoDate)
               ELSE q.saleDate
        ELSE IF ~dateRange.isNull
          THEN IF shouldQueryArchive(startDate, endDate,
                                     getArchiveThresholdDate(clock[4]))
                 THEN AbsentQuery
                 ELSE q.saleDate
        ELSE q.saleDate
      archiveDate ==
        IF ~dateRange.isNull /\ queryBoth
          THEN IF startDate # NoDate /\ endDate # NoDate
                 THEN OpsQuery(startDate, NoDate, NoDate,
                               splitArchiveUpper(endDate, threshold))
               ELSE IF startDate # NoDate
                 THEN OpsQuery(NoDate, NoDate, NoDate, threshold)
               ELSE IF endDate # NoDate
                 THEN OpsQuery(NoDate, NoDate, NoDate,
                               splitArchiveUpper(endDate, threshold))
               ELSE q.saleDate
        ELSE IF ~dateRange.isNull
          THEN IF shouldQueryArchive(startDate, endDate,
                                     getArchiveThresholdDate(clock[4]))
                 THEN q.saleDate
                 ELSE AbsentQuery
        ELSE q.saleDate
  IN [set |-> TRUE,
      primaryQuery |-> [q EXCEPT !.saleDate = primaryDate],
      archiveQuery |-> [q EXCEPT !.saleDate = archiveDate],
      queryBoth |-> queryBoth]

\* ------------------- unifiedQuery.js, the date range of the other kinds
\* The two date fields of a payment query (transactionDate, createdAt) or of
\* a dealer request query (requestedAt, createdAt).
NoRoute == [kind |-> "none", designated |-> AbsentQuery, createdAt |-> AbsentQuery]
NoPlan == [set |-> FALSE, queryArchive |-> FALSE, queryPrimary |-> FALSE,
           thrArchive |-> NoDate, thrPrimary |-> NoDate]

\* A range put together from both fields: the start of the one, the end of
\* the other where the first gives none.
routingRangeCombined(designated, createdAt) ==
  LET first == extractDateRange(designated)
      second == extractDateRange(createdAt)
  IN IF first.isNull THEN second
     ELSE IF second.isNull THEN first
     ELSE [isNull |-> FALSE,
           startDate |-> IF first.startDate # NoDate THEN first.startDate
                         ELSE second.startDate,
           endDate |-> IF first.endDate # NoDate THEN first.endDate
                       ELSE second.endDate]

\* extractDateRange(query, 'transactionDate') || extractDateRange(query, 'createdAt')
routingRange(designated, createdAt) ==
  IF ~extractDateRange(designated).isNull
    THEN extractDateRange(designated)
    ELSE extractDateRange(createdAt)

\* -------------------------------- archiveQuery.js, the manual population
\* The reference paths each queryArchive* function knows.
SalePaths == {"salesman", "dealer", "product", "shopkeeper"}
PaymentPaths == {"dealer", "dealerRequest", "processedBy"}
DealerRequestPaths == {"dealer", "product", "processedBy"}

\* A record of a batch is given by the paths on which it holds a reference.
NoResolve == [kind |-> "none", results |-> <<>>, populate |-> {}]

\* The records of a results that hold a reference on one of the paths.
Referencing(results, paths) == {i \in DOMAIN results : results[i] \cap paths # {}}

\* queryArchiveSales: the identifiers are collected per collection (users for
\* salesman and dealer, products, shopkeepers) over the whole results, and one
\* find with $in is issued for each collection whose set is not empty.
salesLookups(results, populate) ==
  IF populate = {} \/ results = <<>> THEN 0
  ELSE (IF Referencing(results, populate \cap {"salesman", "dealer"}) # {} THEN 1 ELSE 0)
       + (IF Referencing(results, populate \cap {"product"}) # {} THEN 1 ELSE 0)
       + (IF Referencing(results, populate \cap {"shopkeeper"}) # {} THEN 1 ELSE 0)

\* The findById calls the loop over the results issues for the record at i:
\* one for each requested path on which the record holds a reference, and
\* for a payment's dealerRequest one more for the product of the request
\* found, when it has one.
RECURSIVE pointLookups(_, _, _, _)
pointLookups(results, populate, nested, i) ==
  IF i > Len(results) THEN 0
  ELSE Cardinality(results[i] \cap populate)
       + (IF nested /\ "dealerRequest" \in results[i] \cap populate THEN 1 ELSE 0)
       + pointLookups(results, populate, nested, i + 1)

\* queryArchivePayments: for (const result of results) for (const pop of populate)
paymentLookups(results, populate, nested) ==
  IF populate = {} \/ results = <<>> THEN 0 ELSE pointLookups(results, populate, nested, 1)

\* queryArchiveDealerRequests: the same loop, without a nested lookup
dealerRequestLookups(results, populate) ==
  IF populate = {} \/ results = <<>> THEN 0 ELSE pointLookups(results, populate, FALSE, 1)

\* ------------------------------------------------------------ utils/cache.js
Keys == 1..MaxKeys
Values == 1..MaxValue
\* ttlSeconds: 0 stands for every value that is not truthy (null, 0, absent).
Ttls == 0..MaxTtl

NoItem == [value |-> 0, expiresAt |-> 0]
NoTimer == [key |-> 0, due |-> 0]
NoSet == [value |-> 0, at |-> 0, ttl |-> 0, before |-> FALSE, firstDue |-> 0]
NoGot == [key |-> 0, value |-> 0]

\* ttlSeconds ? Date.now() + (ttlSeconds * 1000) : null
expiresAtOf(ttlSeconds, t) == IF ttlSeconds # 0 THEN t + ttlSeconds * MsPerSecond ELSE 0

\* item.expiresAt && Date.now() > item.expiresAt
Expired(item, t) == item.expiresAt # 0 /\ t > item.expiresAt

\* A clearTimeout that leaves the timer scheduled.
clearTimeoutKept(scheduled, timer) == scheduled

\* clearTimeout(timer)
clearTimeout(scheduled, timer) == scheduled \ {timer}

\* The state of the cache after delete(key) for every key of ks.
deleteKeys(st, tm, sch, ks) ==
  [store |-> [k \in Keys |-> IF k \in ks THEN NoItem ELSE st[k]],
   timers |-> [k \in Keys |-> IF k \in ks THEN NoTimer ELSE tm[k]],
   timeouts |-> {h \in sch : \A k \in ks :
                   tm[k] # NoTimer => h \in clearTimeout(sch, tm[k])}]

\* What get(key) returns at time t: 0 stands for null.
getValue(st, k, t) ==
  IF st[k] = NoItem THEN 0
  ELSE IF Expired(st[k], t) THEN 0
  ELSE st[k].value

\* The keys whose item has expired at time t.
ExpiredKeys(st, t) == {k \in Keys : st[k] # NoItem /\ Expired(st[k], t)}

\* set(key, value, ttlSeconds)
CacheSet(k, v, ttlSeconds) ==
  /\ store' = [store EXCEPT ![k] = [value |-> v,
                                    expiresAt |-> expiresAtOf(ttlSeconds, dateNow)]]
  /\ LET cleared == IF timers[k] # NoTimer THEN clearTimeout(timeouts, timers[k])
                    ELSE timeouts
         timer == [key |-> k, due |-> dateNow + ttlSeconds * MsPerSecond]
     IN IF ttlSeconds # 0
          THEN /\ timeouts' = cleared \cup {timer}
               /\ timers' = [timers EXCEPT ![k] = timer]
          ELSE /\ timeouts' = cleared
               /\ UNCHANGED timers
  /\ lastSet' = [lastSet EXCEPT ![k] =
        [value |-> v, at |-> dateNow, ttl |-> ttlSeconds,
         before |-> /\ lastSet[k] # NoSet
                    /\ lastSet[k].ttl # 0
                    /\ dateNow < lastSet[k].at + lastSet[k].ttl * MsPerSecond,
         firstDue |-> IF lastSet[k] # NoSet /\ lastSet[k].ttl # 0
                        THEN lastSet[k].at + lastSet[k].ttl * MsPerSecond ELSE 0]]
  /\ got' = NoGot
  /\ UNCHANGED dateNow
  /\ UNCHANGED <<now, unifiedVars, splitVars, resolveVars, routeVars, payVars>>

\* get(key): an expired item is deleted and null returned.
CacheGet(k) ==
  /\ got' = [key |-> k, value |-> getValue(store, k, dateNow)]
  /\ IF store[k] # NoItem /\ Expired(store[k], dateNow)
       THEN LET after == deleteKeys(store, timers, timeouts, {k})
            IN /\ store' = after.store
               /\ timers' = after.timers
               /\ timeouts' = after.timeouts
       ELSE UNCHANGED <<store, timers, timeouts>>
  /\ UNCHANGED <<dateNow, lastSet>>
  /\ UNCHANGED <<now, unifiedVars, splitVars, resolveVars, routeVars, payVars>>

\* delete(key), called by the program.
CacheDelete(k) ==
  /\ LET after == deleteKeys(store, timers, timeouts, {k})
     IN /\ store' = after.store
        /\ timers' = after.timers
        /\ timeouts' = after.timeouts
  /\ lastSet' = [lastSet EXCEPT ![k] = NoSet]
  /\ got' = NoGot
  /\ UNCHANGED dateNow
  /\ UNCHANGED <<now, unifiedVars, splitVars, resolveVars, routeVars, payVars>>

\* clear(pattern): delete(key) for the keys of the store the pattern matches.
CacheClearPattern(matching) ==
  /\ LET ks == {k \in matching : store[k] # NoItem}
         after == deleteKeys(store, timers, timeouts, ks)
     IN /\ store' = after.store
        /\ timers' = after.timers
        /\ timeouts' = after.timeouts
        /\ lastSet' = [k \in Keys |-> IF k \in ks THEN NoSet ELSE lastSet[k]]
  /\ got' = NoGot
  /\ UNCHANGED dateNow
  /\ UNCHANGED <<now, unifiedVars, splitVars, resolveVars, routeVars, payVars>>

\* clear(): every timer of the map cleared, both maps emptied.
CacheClear ==
  /\ timeouts' = {h \in timeouts : \A k \in Keys :
                     timers[k] # NoTimer => h \in clearTimeout(timeouts, timers[k])}
  /\ timers' = [k \in Keys |-> NoTimer]
  /\ store' = [k \in Keys |-> NoItem]
  /\ lastSet' = [k \in Keys |-> NoSet]
  /\ got' = NoGot
  /\ UNCHANGED dateNow
  /\ UNCHANGED <<now, unifiedVars, splitVars, resolveVars, routeVars, payVars>>

\* The callback of a timer of set runs, at its due time or later:
\* this.delete(key).
TimerFire ==
  /\ \E timer \in timeouts :
       /\ dateNow >= timer.due
       /\ LET after == deleteKeys(store, timers, timeouts \ {timer}, {timer.key})
          IN /\ store' = after.store
             /\ timers' = after.timers
             /\ timeouts' = after.timeouts
  /\ got' = NoGot
  /\ UNCHANGED <<dateNow, lastSet>>
  /\ UNCHANGED <<now, unifiedVars, splitVars, resolveVars, routeVars, payVars>>

\* The cleanup of setInterval: delete every expired item.
CacheCleanup ==
  /\ LET after == deleteKeys(store, timers, timeouts, ExpiredKeys(store, dateNow))
     IN /\ store' = after.store
        /\ timers' = after.timers
        /\ timeouts' = after.timeouts
  /\ got' = NoGot
  /\ UNCHANGED <<dateNow, lastSet>>
  /\ UNCHANGED <<now, unifiedVars, splitVars, resolveVars, routeVars, payVars>>

\* Time passes.
CacheTick ==
  /\ dateNow + TickMs <= MaxClockMs
  /\ dateNow' = dateNow + TickMs
  /\ got' = NoGot
  /\ UNCHANGED <<store, timers, timeouts, lastSet>>
  /\ UNCHANGED <<now, unifiedVars, splitVars, resolveVars, routeVars, payVars>>

NextCache ==
  \/ \E k \in Keys, v \in Values, ttlSeconds \in Ttls : CacheSet(k, v, ttlSeconds)
  \/ \E k \in Keys : CacheGet(k)
  \/ \E k \in Keys : CacheDelete(k)
  \/ \E matching \in SUBSET Keys : CacheClearPattern(matching)
  \/ CacheClear
  \/ TimerFire
  \/ CacheCleanup
  \/ CacheTick

\* ------------------------------------------------------------------- Init
\* The payments of the primary: one made and recorded long ago, one recorded
\* long ago whose transaction took place lately, one recent.
Payments ==
  {[_id |-> 1, transactionDate |-> 1, createdAt |-> 1],
   [_id |-> 2, transactionDate |-> NumRecords, createdAt |-> 1],
   [_id |-> 3, transactionDate |-> NumRecords, createdAt |-> NumRecords]}

Sales == {[_id |-> i, saleDate |-> i] : i \in 1..NumRecords}

Init ==
  /\ now = NowInit
  /\ hot = Sales
  /\ cold = {}
  /\ apc = "idle"
  /\ cutoffDate = NoDate
  /\ batch = <<>>
  /\ bidx = 0
  /\ optBatchSize = 0
  /\ batchSize = 0
  /\ processed = 0
  /\ processLimit = 0
  /\ pc = "idle"
  /\ query = AbsentQuery
  /\ sort = -1
  /\ skip = 0
  /\ limit = 1
  /\ queryArchive = FALSE
  /\ queryPrimary = FALSE
  /\ thrArchive = NoDate
  /\ thrPrimary = NoDate
  /\ primarySent = AbsentQuery
  /\ archiveSent = AbsentQuery
  /\ primaryResults = <<>>
  /\ archiveResults = <<>>
  /\ primaryCount = 0
  /\ archiveCount = 0
  /\ threw = {}
  /\ result = NoResult
  /\ pages = <<>>
  /\ prev = NoPrev
  /\ splitCaller = NoFilter
  /\ splitClock = NoClock
  /\ splitReturned = NoSplit
  /\ resolveCall = NoResolve
  /\ lookups = 0
  /\ routeCaller = NoRoute
  /\ routePlan = NoPlan
  /\ payHot = Payments
  /\ payCold = {}
  /\ store = [k \in Keys |-> NoItem]
  /\ timers = [k \in Keys |-> NoTimer]
  /\ timeouts = {}
  /\ dateNow = 0
  /\ lastSet = [k \in Keys |-> NoSet]
  /\ got = NoGot

\* ------------------------------------------------------------ the clock
\* The clock advances.  It is read by the archiver when it starts, at the
\* entry of a call and by shouldQueryPrimary, so an advance at any other
\* moment of a call shows as an advance after it.
Tick ==
  /\ now < MaxNow
  /\ pc \in {"idle", "plan", "done"}
  /\ now' = now + 1
  /\ UNCHANGED <<storeVars, archVars, pc, argVars, planVars, localVars, result,
                 callerVars>>
  /\ UNCHANGED helperVars

\* ------------------------------------------- scripts/archiveSales.js
Years == {DefaultYears - 1, DefaultYears}
BatchSizes == 1..MaxBatch
\* options.limit; 0 stands for null (no --limit argument)
ArchiveLimits == 0..MaxArchiveLimit

\* Sale.find({saleDate: {$lt: cutoffDate}, ...}): the eligible sales, in
\* the collection's natural order.
Eligible(coll, cutoff) == {s \in coll : s.saleDate < cutoff}

RECURSIVE NaturalOrder(_)
NaturalOrder(coll) ==
  IF coll = {} THEN <<>>
  ELSE LET first == CHOOSE s \in coll : \A o \in coll : s._id <= o._id
       IN <<first>> \o NaturalOrder(coll \ {first})

\* new ObjectId of the archive document made for sale id: an id no primary
\* document and no other archive document has.
RECURSIVE FreshId(_, _)
FreshId(coll, candidate) ==
  IF \A a \in coll : a._id # candidate THEN candidate
  ELSE FreshId(coll, candidate + NumRecords)

NewArchiveId(coll, id) == FreshId(coll, NumRecords + id)

\* An error of create that the catch block takes for a duplicate key, for
\* any insert that failed.
DuplicateKeyAnyError(coll, doc) == Cardinality(coll) >= 0

\* SaleArchive.create fails with code 11000: the collection has a document
\* equal to doc on a unique index; the schema has none but the one on _id.
DuplicateKey(coll, doc) == \E a \in coll : a._id = doc._id

SetArchiver(p, cutoff, b, i, optSize, size, done, lim) ==
  /\ apc' = p
  /\ cutoffDate' = cutoff
  /\ batch' = b
  /\ bidx' = i
  /\ optBatchSize' = optSize
  /\ batchSize' = size
  /\ processed' = done
  /\ processLimit' = lim

\* process.exit(): the script's variables are gone.
ArchiverExit == SetArchiver("idle", NoDate, <<>>, 0, 0, 0, 0, 0)

\* archiveSales up to the dry-run test: cutoff date, count, exit when nothing
\* is eligible; then either the dry run's listing or the while loop with
\* processLimit = options.limit || totalCount.
ArchiveStart(years, size, lim, dryRun) ==
  /\ apc = "idle"
  /\ pc = "idle"
  /\ LET cutoff == now - years
         totalCount == Cardinality(Eligible(hot, cutoff))
     IN IF totalCount = 0
          THEN ArchiverExit
          ELSE IF dryRun
            THEN SetArchiver("sample", cutoff, <<>>, 0, size, 0, 0,
                             IF lim # 0 THEN lim ELSE totalCount)
            ELSE SetArchiver("fetch", cutoff, <<>>, 0, size, 0, 0,
                             IF lim # 0 THEN lim ELSE totalCount)
  /\ UNCHANGED <<now, storeVars, pc, argVars, planVars, localVars, result, callerVars>>
  /\ UNCHANGED helperVars

\* A dry run that goes on to the archiving loop after its listing.
ArchiveSampleThenArchive ==
  /\ apc = "sample"
  /\ pc = "idle"
  /\ SetArchiver("fetch", cutoffDate, <<>>, 0, optBatchSize, 0, 0, processLimit)
  /\ UNCHANGED <<now, storeVars, pc, argVars, planVars, localVars, result, callerVars>>
  /\ UNCHANGED helperVars

\* The dry run: Sale.find(query).select(...).limit(5).lean(), the listing on
\* the console, process.exit(0).
ArchiveSample ==
  /\ apc = "sample"
  /\ pc = "idle"
  /\ ArchiverExit
  /\ UNCHANGED <<now, storeVars, pc, argVars, planVars, localVars, result, callerVars>>
  /\ UNCHANGED helperVars

\* Head of the while loop: fetch the next batch.
ArchiveFetch ==
  /\ apc = "fetch"
  /\ pc = "idle"
  /\ IF processed >= processLimit
       THEN ArchiverExit
       ELSE LET size == Min(optBatchSize, processLimit - processed)
                found == Limit(NaturalOrder(Eligible(hot, cutoffDate)), size)
            IN IF found = <<>>
                 THEN ArchiverExit
                 ELSE SetArchiver("create", cutoffDate, found, 1, optBatchSize, size,
                                  processed, processLimit)
  /\ UNCHANGED <<now, storeVars, pc, argVars, planVars, localVars, result, callerVars>>
  /\ UNCHANGED helperVars

\* Position after the sale at bidx is dealt with: the next sale of the
\* batch, the next batch, or the end when the batch came short.
AfterSale(done) ==
  IF bidx < Len(batch)
    THEN SetArchiver("create", cutoffDate, batch, bidx + 1, optBatchSize, batchSize,
                     done, processLimit)
    ELSE IF Len(batch) < batchSize
      THEN ArchiverExit
      ELSE SetArchiver("fetch", cutoffDate, <<>>, 0, optBatchSize, batchSize, done,
                       processLimit)

\* SaleArchive.create(archiveData), or its error caught by the loop.
ArchiveCreate ==
  /\ apc = "create"
  /\ pc = "idle"
  /\ LET archiveData == [_id |-> NewArchiveId(cold, batch[bidx]._id),
                         saleDate |-> batch[bidx].saleDate,
                         originalId |-> batch[bidx]._id]
     IN \/ /\ ~DuplicateKey(cold, archiveData)
           /\ Cardinality(cold) < MaxCold
           /\ cold' = cold \cup {archiveData}
           /\ SetArchiver("delete", cutoffDate, batch, bidx, optBatchSize, batchSize,
                          processed, processLimit)
           /\ UNCHANGED hot
        \/ /\ AfterSale(processed)
           /\ UNCHANGED storeVars
        \/ /\ DuplicateKey(cold, archiveData)
           /\ AfterSale(processed)
           /\ \/ hot' = {s \in hot : s._id # batch[bidx]._id}
              \/ UNCHANGED hot
           /\ UNCHANGED cold
  /\ UNCHANGED <<now, pc, argVars, planVars, localVars, result, callerVars>>
  /\ UNCHANGED helperVars

\* Sale.deleteOne({_id: sale._id}); archived++; processed++, or the error
\* of the delete caught by the loop.
ArchiveDelete ==
  /\ apc = "delete"
  /\ pc = "idle"
  /\ \/ /\ hot' = {s \in hot : s._id # batch[bidx]._id}
        /\ AfterSale(processed + 1)
     \/ /\ AfterSale(processed)
        /\ UNCHANGED hot
  /\ UNCHANGED cold
  /\ UNCHANGED <<now, pc, argVars, planVars, localVars, result, callerVars>>
  /\ UNCHANGED helperVars

\* The script is stopped (killed, or the connection is lost for good).
ArchiveStop ==
  /\ apc # "idle"
  /\ pc = "idle"
  /\ ArchiverExit
  /\ UNCHANGED <<now, storeVars, pc, argVars, planVars, localVars, result, callerVars>>
  /\ UNCHANGED helperVars

\* ----------------------------------------- scripts/archivePayments.js
\* Payment.find(fixedQuery): transactionDate or createdAt before the cutoff.
PayEligible(coll, cutoff) ==
  {p \in coll : p.transactionDate < cutoff \/ p.createdAt < cutoff}

\* archivePayments up to the dry-run test, with the default --years.
PayStart(size, lim, dryRun) ==
  /\ apc = "idle"
  /\ pc = "idle"
  /\ LET cutoff == now - DefaultYears
         totalCount == Cardinality(PayEligible(payHot, cutoff))
     IN IF totalCount = 0
          THEN ArchiverExit
          ELSE SetArchiver(IF dryRun THEN "sample" ELSE "fetch", cutoff, <<>>, 0, size,
                           0, 0, IF lim # 0 THEN lim ELSE totalCount)
  /\ UNCHANGED <<now, storeVars, pc, argVars, planVars, localVars, result, callerVars>>
  /\ UNCHANGED helperVars

\* Head of the while loop: fetch the next batch of payments.
PayFetch ==
  /\ apc = "fetch"
  /\ pc = "idle"
  /\ IF processed >= processLimit
       THEN ArchiverExit
       ELSE LET size == Min(optBatchSize, processLimit - processed)
                found == Limit(NaturalOrder(PayEligible(payHot, cutoffDate)), size)
            IN IF found = <<>>
                 THEN ArchiverExit
                 ELSE SetArchiver("create", cutoffDate, found, 1, optBatchSize, size,
                                  processed, processLimit)
  /\ UNCHANGED <<now, storeVars, pc, argVars, planVars, localVars, result, callerVars>>
  /\ UNCHANGED helperVars

\* PaymentArchive.create(archiveData), or its error caught by the loop.
PayCreate ==
  /\ apc = "create"
  /\ pc = "idle"
  /\ \/ /\ Cardinality(payCold) < MaxCold
        /\ payCold' = payCold \cup {[_id |-> NewArchiveId(payCold, batch[bidx]._id),
                                     transactionDate |-> batch[bidx].transactionDate,
                                     createdAt |-> batch[bidx].createdAt,
                                     originalId |-> batch[bidx]._id]}
        /\ SetArchiver("delete", cutoffDate, batch, bidx, optBatchSize, batchSize,
                       processed, processLimit)
     \/ /\ AfterSale(processed)
        /\ UNCHANGED payCold
  /\ UNCHANGED <<now, storeVars, pc, argVars, planVars, localVars, result, callerVars>>
  /\ UNCHANGED <<splitVars, resolveVars, routeVars, payHot, cacheVars>>

\* Payment.deleteOne({_id: payment._id}); archived++; processed++, or the
\* error of the delete caught by the loop.
PayDelete ==
  /\ apc = "delete"
  /\ pc = "idle"
  /\ \/ /\ payHot' = {p \in payHot : p._id # batch[bidx]._id}
        /\ AfterSale(processed + 1)
     \/ /\ AfterSale(processed)
        /\ UNCHANGED payHot
  /\ UNCHANGED <<now, storeVars, pc, argVars, planVars, localVars, result, callerVars>>
  /\ UNCHANGED <<splitVars, resolveVars, routeVars, payCold, cacheVars>>

\* The payments script run any number of times with the default retention,
\* while the clock advances; its dry run and its stop are those of the
\* sales script.
NextPayArchive ==
  \/ Tick
  \/ \E size \in BatchSizes, lim \in ArchiveLimits, dryRun \in BOOLEAN :
       PayStart(size, lim, dryRun)
  \/ ArchiveSample
  \/ PayFetch
  \/ PayCreate
  \/ PayDelete
  \/ ArchiveStop

SpecPayArchive == Init /\ [][NextPayArchive]_vars

\* --------------------------------------- utils/unifiedQuery.js, the caller
\* The saleDate filters a caller passes: none, a bare date, one bound, a range.
Queries ==
  {AbsentQuery}
    \cup {DateQuery(d) : d \in Dates}
    \cup {OpsQuery(d, NoDate, NoDate, NoDate) : d \in Dates}
    \cup {OpsQuery(NoDate, d, NoDate, NoDate) : d \in Dates}
    \cup {OpsQuery(d, e, NoDate, NoDate) : d \in Dates, e \in Dates}
Sorts == {-1, 1}
Limits == 1..MaxLimit

\* Entry of queryUnifiedSales: the options, the locals, extractDateRange and
\* the decision on the archive.
Enter(q, dir, sk, lim) ==
  /\ query' = q
  /\ sort' = dir
  /\ skip' = sk
  /\ limit' = lim
  /\ primarySent' = AbsentQuery
  /\ archiveSent' = AbsentQuery
  /\ primaryResults' = <<>>
  /\ archiveResults' = <<>>
  /\ primaryCount' = 0
  /\ archiveCount' = 0
  /\ threw' = {}
  /\ result' = NoResult
  /\ LET dateRange == extractDateRange(q)
         threshold == getArchiveThresholdDate(now)
     IN /\ thrArchive' = threshold
        /\ queryArchive' = shouldQueryArchive(dateRange.startDate, dateRange.endDate,
                                              threshold)
  /\ UNCHANGED <<queryPrimary, thrPrimary>>
  /\ pc' = "plan"

\* A caller asks for the first page.
Call(q, dir, lim) ==
  /\ pc = "idle"
  /\ apc = "idle"
  /\ Enter(q, dir, 0, lim)
  /\ pages' = <<>>
  /\ prev' = NoPrev
  /\ UNCHANGED <<now, storeVars, archVars>>
  /\ UNCHANGED helperVars

\* const queryPrimary = shouldQueryPrimary(...)
PlanPrimary ==
  /\ pc = "plan"
  /\ LET dateRange == extractDateRange(query)
         threshold == getArchiveThresholdDate(now)
         qp == shouldQueryPrimary(dateRange.startDate, dateRange.endDate, threshold)
     IN /\ thrPrimary' = threshold
        /\ queryPrimary' = qp
        /\ pc' = IF qp THEN "primaryCount" ELSE IF queryArchive THEN "archiveFind"
                 ELSE "merge"
  /\ UNCHANGED <<now, storeVars, archVars, argVars, queryArchive, thrArchive, localVars,
                 result, callerVars>>
  /\ UNCHANGED helperVars

\* Where the call goes on after the primary block, finished or caught.
AfterPrimary == IF queryArchive THEN "archiveFind" ELSE "merge"

\* An archive block that lets the error out of the call.
AfterArchiveErrorRaised == "raised"

\* The catch block of the archive block: log the error and go on.
AfterArchiveError == "merge"

\* The caller's query with its lower bound raised to the threshold.
PrimaryFilterSplit(q) ==
  IF q.kind = "date" THEN q
  ELSE OpsQuery(Max(q.gte, thrPrimary), q.lte, q.gt, q.lt)

\* The filter of Sale.find(query) and Sale.countDocuments(query): the
\* caller's query as it came.
PrimaryFilter(q) == q

\* The filter of queryArchiveSales(query, ...) and countArchiveSales(query):
\* the caller's query as it came.
ArchiveFilter(q) == q

\* primaryCount = await Sale.countDocuments(query), or its error caught.
PrimaryCount ==
  /\ pc = "primaryCount"
  /\ primarySent' = PrimaryFilter(query)
  /\ \/ /\ primaryCount' = countDocuments(hot, PrimaryFilter(query))
        /\ pc' = "primaryFind"
        /\ UNCHANGED threw
     \/ /\ threw' = threw \cup {"primaryCount"}
        /\ pc' = AfterPrimary
        /\ UNCHANGED primaryCount
  /\ UNCHANGED <<now, storeVars, archVars, argVars, planVars, archiveSent, primaryResults,
                 archiveResults, archiveCount, result, callerVars>>
  /\ UNCHANGED helperVars

\* A page fetch that takes the documents it returns out of the primary.
PrimaryFindAndRemove ==
  /\ pc = "primaryFind"
  /\ \E tie \in {-1, 1} :
       LET page == Find({PrimaryDoc(s) : s \in hot}, primarySent, sort, tie, skip, limit)
       IN /\ primaryResults' = page
          /\ hot' = {s \in hot : \A i \in DOMAIN page : page[i]._id # s._id}
  /\ pc' = AfterPrimary
  /\ UNCHANGED <<now, cold, archVars, argVars, planVars, primarySent, archiveSent,
                 archiveResults, primaryCount, archiveCount, threw, result, callerVars>>
  /\ UNCHANGED helperVars

\* primaryResults = await primaryQuery.skip(skip).limit(limit).exec(), or
\* its error caught.
PrimaryFind ==
  /\ pc = "primaryFind"
  /\ \/ /\ \E tie \in {-1, 1} :
             primaryResults' =
               Find({PrimaryDoc(s) : s \in hot}, primarySent, sort, tie, skip, limit)
        /\ UNCHANGED threw
     \/ /\ threw' = threw \cup {"primaryFind"}
        /\ UNCHANGED primaryResults
  /\ pc' = AfterPrimary
  /\ UNCHANGED <<now, storeVars, archVars, argVars, planVars, primarySent, archiveSent,
                 archiveResults, primaryCount, archiveCount, result, callerVars>>
  /\ UNCHANGED helperVars

\* archiveResults = await queryArchiveSales(query, {skip: archiveSkip, limit:
\* archiveLimit, ...}): the find on the archive and the batch lookups of the
\* referenced documents; an error of either is caught by the archive block.
ArchiveFind ==
  /\ pc = "archiveFind"
  /\ archiveSent' = ArchiveFilter(query)
  /\ LET aLimit == archiveLimit(queryPrimary, limit, Len(primaryResults))
         aSkip == archiveSkip(queryPrimary, limit, Len(primaryResults), skip)
     IN \E tie \in {-1, 1} :
          LET results == Find({ArchiveDoc(a) : a \in cold}, ArchiveFilter(query),
                              sort, tie, aSkip, aLimit)
          IN \/ /\ archiveResults' = results
                /\ pc' = "archiveCount"
                /\ UNCHANGED threw
             \/ /\ threw' = threw \cup {"archiveFind"}
                /\ pc' = AfterArchiveError
                /\ UNCHANGED archiveResults
             \/ /\ results # <<>>
                /\ threw' = threw \cup {"archiveLookup"}
                /\ pc' = AfterArchiveError
                /\ UNCHANGED archiveResults
  /\ UNCHANGED <<now, storeVars, archVars, argVars, planVars, primarySent, primaryResults,
                 primaryCount, archiveCount, result, callerVars>>
  /\ UNCHANGED helperVars

\* archiveCount = await countArchiveSales(query); archiveResults =
\* archiveResults.map(normalizeArchiveRecord); or the error of the count caught.
ArchiveCount ==
  /\ pc = "archiveCount"
  /\ \/ /\ archiveCount' = countDocuments(cold, archiveSent)
        /\ archiveResults' = [i \in 1..Len(archiveResults) |->
                                normalizeArchiveRecord(archiveResults[i])]
        /\ pc' = "merge"
        /\ UNCHANGED threw
     \/ /\ threw' = threw \cup {"archiveCount"}
        /\ pc' = AfterArchiveError
        /\ UNCHANGED <<archiveCount, archiveResults>>
  /\ UNCHANGED <<now, storeVars, archVars, argVars, planVars, primarySent, archiveSent,
                 primaryResults, primaryCount, result, callerVars>>
  /\ UNCHANGED helperVars

\* Merge, re-sort, cut to the limit and return.
Return ==
  /\ pc = "merge"
  /\ result' = [data |-> mergeResults(queryArchive, queryPrimary, primaryResults,
                                      archiveResults, limit),
                total |-> primaryCount + archiveCount,
                fromPrimary |-> Len(primaryResults),
                fromArchive |-> Len(archiveResults),
                primaryCount |-> primaryCount,
                archiveCount |-> archiveCount]
  /\ pc' = "done"
  /\ UNCHANGED <<now, storeVars, archVars, argVars, planVars, localVars, callerVars>>
  /\ UNCHANGED helperVars

\* The call that just returned queried both tiers and no store operation failed.
CleanBoth == threw = {} /\ queryArchive /\ queryPrimary

\* The caller is done with the result.
Finish ==
  /\ pc = "done"
  /\ pc' = "idle"
  /\ query' = AbsentQuery
  /\ sort' = -1
  /\ skip' = 0
  /\ limit' = 1
  /\ queryArchive' = FALSE
  /\ queryPrimary' = FALSE
  /\ thrArchive' = NoDate
  /\ thrPrimary' = NoDate
  /\ primarySent' = AbsentQuery
  /\ archiveSent' = AbsentQuery
  /\ primaryResults' = <<>>
  /\ archiveResults' = <<>>
  /\ primaryCount' = 0
  /\ archiveCount' = 0
  /\ threw' = {}
  /\ result' = NoResult
  /\ pages' = <<>>
  /\ prev' = NoPrev
  /\ UNCHANGED <<now, storeVars, archVars>>
  /\ UNCHANGED helperVars

\* The caller keeps the page and asks for the next one: skip + limit.
NextPage ==
  /\ pc = "done"
  /\ skip + limit < result.total
  /\ CleanBoth
  /\ pages' = pages \o result.data
  /\ prev' = NoPrev
  /\ Enter(query, sort, skip + limit, limit)
  /\ UNCHANGED <<now, storeVars, archVars>>
  /\ UNCHANGED helperVars

\* The caller makes the identical call again and keeps what this one returned.
Repeat ==
  /\ pc = "done"
  /\ skip = 0
  /\ ~prev.set
  /\ threw = {}
  /\ prev' = [set |-> TRUE, total |-> result.total,
              fromPrimary |-> result.fromPrimary, fromArchive |-> result.fromArchive,
              queryArchive |-> queryArchive, queryPrimary |-> queryPrimary]
  /\ Enter(query, sort, skip, limit)
  /\ UNCHANGED <<now, storeVars, archVars, pages>>
  /\ UNCHANGED helperVars

Next ==
  \/ Tick
  \/ \E years \in Years, size \in BatchSizes, lim \in ArchiveLimits, dryRun \in BOOLEAN :
       ArchiveStart(years, size, lim, dryRun)
  \/ ArchiveSample
  \/ ArchiveFetch
  \/ ArchiveCreate
  \/ ArchiveDelete
  \/ ArchiveStop
  \/ \E q \in Queries, dir \in Sorts, lim \in Limits : Call(q, dir, lim)
  \/ PlanPrimary
  \/ PrimaryCount
  \/ PrimaryFind
  \/ ArchiveFind
  \/ ArchiveCount
  \/ Return
  \/ Finish
  \/ NextPage
  \/ Repeat

Spec == Init /\ [][Next]_vars

\* The archiving script alone, run any number of times.  Once started the
\* script keeps executing: each of its steps is taken when it stays enabled.
\* Whether a create or a delete succeeds is up to the store, and a stop
\* from outside need not come.
NextArchiver ==
  \/ \E years \in Years, size \in BatchSizes, lim \in ArchiveLimits, dryRun \in BOOLEAN :
       ArchiveStart(years, size, lim, dryRun)
  \/ ArchiveSample
  \/ ArchiveFetch
  \/ ArchiveCreate
  \/ ArchiveDelete
  \/ ArchiveStop

SpecArchiver ==
  /\ Init
  /\ [][NextArchiver]_vars
  /\ WF_vars(ArchiveSample)
  /\ WF_vars(ArchiveFetch)
  /\ WF_vars(ArchiveCreate)
  /\ WF_vars(ArchiveDelete)

\* ------------------------------------------------ splitQueryByDate called
\* The date entries a caller passes: none, a bare date, any combination of
\* $gte, $lte, $gt and $lt.
SplitDates ==
  {AbsentQuery, FalsyQuery}
    \cup {DateQuery(d) : d \in Dates}
    \cup {OpsQuery(ge, le, g, l) : ge \in {NoDate} \cup Dates, le \in {NoDate} \cup Dates,
                                   g \in {NoDate} \cup Dates, l \in {NoDate} \cup Dates}
Dealers == 0..MaxDealer
Filters == {Filter(dealer, saleDate) : dealer \in Dealers, saleDate \in SplitDates}

\* The readings of a clock that does not run backwards, from now on.
Clocks ==
  {c \in (NowInit..MaxNow) \X (NowInit..MaxNow) \X (NowInit..MaxNow) \X (NowInit..MaxNow) :
     now <= c[1] /\ c[1] <= c[2] /\ c[2] <= c[3] /\ c[3] <= c[4]}

\* A call of splitQueryByDate(q, 'saleDate'), from entry to return.
SplitCall(q, clock) ==
  /\ ~splitReturned.set
  /\ splitCaller' = q
  /\ splitClock' = clock
  /\ splitReturned' = splitQueryByDate(q, clock)
  /\ now' = clock[4]
  /\ UNCHANGED <<unifiedVars, resolveVars, routeVars, payVars, cacheVars>>

\* The caller is done with the returned object.
SplitDone ==
  /\ splitReturned.set
  /\ splitCaller' = NoFilter
  /\ splitClock' = NoClock
  /\ splitReturned' = NoSplit
  /\ UNCHANGED <<now, unifiedVars, resolveVars, routeVars, payVars, cacheVars>>

NextSplit ==
  \/ \E q \in Filters, clock \in Clocks : SplitCall(q, clock)
  \/ SplitDone

SpecSplit == Init /\ [][NextSplit]_vars

\* ------------------------- the routing of payments and dealer requests
\* The date entries of a payment or dealer request query.
RouteDates ==
  {AbsentQuery, FalsyQuery}
    \cup {DateQuery(d) : d \in Dates}
    \cup {OpsQuery(ge, le, NoDate, NoDate) : ge \in {NoDate} \cup Dates,
                                            le \in {NoDate} \cup Dates}
RouteKinds == {"payment", "dealerRequest"}

\* The head of queryUnifiedPayments or queryUnifiedDealerRequests: the date
\* range and the two decisions, each with its own reading of the clock.
PlanRoute(kind, designated, createdAt, clockArchive, clockPrimary) ==
  /\ ~routePlan.set
  /\ now <= clockArchive
  /\ clockArchive <= clockPrimary
  /\ routeCaller' = [kind |-> kind, designated |-> designated, createdAt |-> createdAt]
  /\ LET dateRange == routingRange(designated, createdAt)
     IN routePlan' =
          [set |-> TRUE,
           queryArchive |-> shouldQueryArchive(dateRange.startDate, dateRange.endDate,
                                               getArchiveThresholdDate(clockArchive)),
           queryPrimary |-> shouldQueryPrimary(dateRange.startDate, dateRange.endDate,
                                               getArchiveThresholdDate(clockPrimary)),
           thrArchive |-> getArchiveThresholdDate(clockArchive),
           thrPrimary |-> getArchiveThresholdDate(clockPrimary)]
  /\ now' = clockPrimary
  /\ UNCHANGED <<unifiedVars, splitVars, resolveVars, payVars, cacheVars>>

\* The call goes on with the tiers decided and returns.
RouteDone ==
  /\ routePlan.set
  /\ routeCaller' = NoRoute
  /\ routePlan' = NoPlan
  /\ UNCHANGED <<now, unifiedVars, splitVars, resolveVars, payVars, cacheVars>>

NextRoute ==
  \/ \E kind \in RouteKinds, designated \in RouteDates, createdAt \in RouteDates,
         clockArchive \in NowInit..MaxNow, clockPrimary \in NowInit..MaxNow :
       PlanRoute(kind, designated, createdAt, clockArchive, clockPrimary)
  \/ RouteDone

SpecRoute == Init /\ [][NextRoute]_vars

\* ------------------------------------------- the manual population called
\* The batches of at most MaxResolve records over the paths of a kind.
Batches(paths) ==
  UNION {[1..n -> SUBSET paths] : n \in 0..MaxResolve}

\* queryArchiveSales after its find returned results, with options.populate.
ResolveSales(results, populate) ==
  /\ resolveCall = NoResolve
  /\ resolveCall' = [kind |-> "sale", results |-> results, populate |-> populate]
  /\ lookups' = salesLookups(results, populate)
  /\ UNCHANGED <<now, unifiedVars, splitVars, routeVars, payVars, cacheVars>>

\* queryArchivePayments after its find returned results; nested tells whether
\* the dealer requests found have a product.
ResolvePayments(results, populate, nested) ==
  /\ resolveCall = NoResolve
  /\ resolveCall' = [kind |-> "payment", results |-> results, populate |-> populate]
  /\ lookups' = paymentLookups(results, populate, nested)
  /\ UNCHANGED <<now, unifiedVars, splitVars, routeVars, payVars, cacheVars>>

\* queryArchiveDealerRequests after its find returned results.
ResolveDealerRequests(results, populate) ==
  /\ resolveCall = NoResolve
  /\ resolveCall' = [kind |-> "dealerRequest", results |-> results, populate |-> populate]
  /\ lookups' = dealerRequestLookups(results, populate)
  /\ UNCHANGED <<now, unifiedVars, splitVars, routeVars, payVars, cacheVars>>

\* The function returned its results.
ResolveDone ==
  /\ resolveCall # NoResolve
  /\ resolveCall' = NoResolve
  /\ lookups' = 0
  /\ UNCHANGED <<now, unifiedVars, splitVars, routeVars, payVars, cacheVars>>

NextResolve ==
  \/ \E results \in Batches(SalePaths), populate \in SUBSET SalePaths :
       ResolveSales(results, populate)
  \/ \E results \in Batches(PaymentPaths), populate \in SUBSET PaymentPaths,
         nested \in BOOLEAN :
       ResolvePayments(results, populate, nested)
  \/ \E results \in Batches(DealerRequestPaths), populate \in SUBSET DealerRequestPaths :
       ResolveDealerRequests(results, populate)
  \/ ResolveDone

SpecResolve == Init /\ [][NextResolve]_vars

\* ---------------------------------------------------------------------
\* Properties of queryUnifiedSales.

\* The call has made both routing decisions.
Planned == pc \notin {"idle", "plan"}

\* The call has returned and every store operation it made succeeded.
ReturnedClean == pc = "done" /\ threw = {}

\* The caller's range has both bounds and the threshold lies in it.
Straddles(q, threshold) ==
  LET r == extractDateRange(q)
  IN /\ ~r.isNull
     /\ r.startDate # NoDate
     /\ r.endDate # NoDate
     /\ r.startDate < threshold
     /\ threshold <= r.endDate

\* C1: for every caller filter, also one whose bounds fall between the two
\* readings of the clock, the routing decision selects at least one tier.
C1_SomeTierSelected == Planned => (queryArchive \/ queryPrimary)

\* C2: whenever both tiers are selected, the filter sent to the primary has a
\* lower bound >= the threshold and the filter sent to the archive has an
\* upper bound < the threshold.
C2_SubFiltersDisjoint ==
  (ReturnedClean /\ queryArchive /\ queryPrimary) =>
    /\ extractDateRange(primarySent).startDate # NoDate
    /\ extractDateRange(primarySent).startDate >= thrPrimary
    /\ extractDateRange(archiveSent).endDate # NoDate
    /\ extractDateRange(archiveSent).endDate < thrArchive

\* C3: a record whose saleDate is exactly the threshold is never returned
\* from the archive by a call whose filter straddles the threshold.
C3_ThresholdRecordFromPrimary ==
  (ReturnedClean /\ thrArchive = thrPrimary /\ Straddles(query, thrArchive)) =>
    \A i \in DOMAIN result.data :
      result.data[i].saleDate = thrArchive => result.data[i].originalId = NoId

\* The operations of each tier that can fail.
PrimaryOps == {"primaryCount", "primaryFind"}
ArchiveOps == {"archiveFind", "archiveLookup", "archiveCount"}

\* The tier's count ran and returned.
PrimaryCounted == queryPrimary /\ "primaryCount" \notin threw
ArchiveCounted == queryArchive /\ threw \cap ArchiveOps = {}

\* C4 as stated: total = primaryCount + archiveCount and each count is the
\* number of all the tier's records matching the filter, for every call, here
\* even restricted to calls that selected a tier and in which no store
\* operation failed.
C4_CountsAllMatchesAlways ==
  (ReturnedClean /\ (queryArchive \/ queryPrimary)) =>
    /\ result.total = result.primaryCount + result.archiveCount
    /\ result.primaryCount = Cardinality(Matching(hot, query))
    /\ result.archiveCount = Cardinality(Matching(cold, query))

\* C4: total = primaryCount + archiveCount; the count of a tier that was
\* selected and whose count ran and returned is the number of all the tier's
\* records matching the filter, whatever skip and limit are; the count of a
\* tier that was not selected, or whose count failed or was not reached, is 0.
C4_CountsAllMatches ==
  pc = "done" =>
    /\ result.total = result.primaryCount + result.archiveCount
    /\ result.primaryCount =
         (IF PrimaryCounted THEN Cardinality(Matching(hot, query)) ELSE 0)
    /\ result.archiveCount =
         (IF ArchiveCounted THEN Cardinality(Matching(cold, query)) ELSE 0)

\* A later page of a call that counted both tiers, holding fewer records
\* than the total.
C4_Witness ==
  /\ pc = "done"
  /\ skip > 0
  /\ PrimaryCounted
  /\ ArchiveCounted
  /\ result.primaryCount > limit
  /\ result.archiveCount > 0
  /\ result.total > Len(result.data)

\* The records of a sequence, as a set.
Range(seq) == {seq[i] : i \in DOMAIN seq}

C6_FailedTierContributesNothing ==
  pc = "done" =>
    /\ threw \cap PrimaryOps # {} =>
         (result.fromPrimary = 0 /\ result.primaryCount = 0)
    /\ threw \cap ArchiveOps # {} =>
         (result.fromArchive = 0 /\ result.archiveCount = 0)

\* C7: for a filter that straddles the threshold both tiers are queried and
\* the merged result holds no record twice, an archive record and a primary
\* record being the same record when the former's originalId is the latter's
\* _id, in every state of the stores the archiver can leave.
C7_NoDuplicateAcrossTiers ==
  (ReturnedClean /\ thrArchive = thrPrimary /\ Straddles(query, thrArchive)) =>
    /\ queryArchive
    /\ queryPrimary
    /\ \A i, j \in DOMAIN result.data :
         ~ /\ result.data[i].originalId # NoId
           /\ result.data[j].originalId = NoId
           /\ result.data[i].originalId = result.data[j]._id

\* Every record of the two stores that matches the caller's filter, as a
\* call returns it.
AllMatching ==
  {PrimaryDoc(d) : d \in Matching(hot, query)}
    \cup {normalizeArchiveRecord(ArchiveDoc(a)) : a \in Matching(cold, query)}

\* The caller has fetched the last page of a listing routed to both tiers.
LastPage == pc = "done" /\ CleanBoth /\ skip + limit >= result.total

\* No record is in both stores.
MovedCleanly == \A a \in cold : \A h \in hot : a.originalId # h._id

\* C8: for a fixed store state and a query routed to both tiers, the pages
\* fetched with skip = 0, limit, 2*limit, ... hold every matching record of
\* the two stores exactly once, in the globally sorted order (here for the
\* descending listing of stores that share no record).
C8_PagesCoverEveryRecordOnce ==
  (LastPage /\ sort = -1 /\ MovedCleanly) =>
    LET all == pages \o result.data
    IN /\ Len(all) = Cardinality(AllMatching)
       /\ Range(all) = AllMatching
       /\ \A i, j \in DOMAIN all : i < j => all[i].saleDate >= all[j].saleDate

\* s is ordered by saleDate in the direction dir.
Ordered(s, dir) ==
  \A i, j \in DOMAIN s :
    i < j => (IF dir = 1 THEN s[i].saleDate <= s[j].saleDate
                         ELSE s[i].saleDate >= s[j].saleDate)

\* C9: when both tiers are queried the returned records are ordered by
\* saleDate in the direction the caller asked for, and there are at most
\* limit of them.
C9_RequestedOrderAndLimit ==
  (ReturnedClean /\ queryArchive /\ queryPrimary) =>
    /\ Ordered(result.data, sort)
    /\ Len(result.data) <= limit

\* The call returned the totals the identical call before it returned.
SameAsPrev ==
  /\ result.total = prev.total
  /\ result.fromPrimary = prev.fromPrimary
  /\ result.fromArchive = prev.fromArchive

C11_OriginalIdMarksArchive ==
  pc \in {"merge", "done"} =>
    /\ \A i \in DOMAIN primaryResults :
         /\ primaryResults[i].originalId = NoId
         /\ \E h \in hot : h._id = primaryResults[i]._id
    /\ \A i \in DOMAIN archiveResults :
         /\ archiveResults[i].originalId # NoId
         /\ \E a \in cold : /\ a._id = archiveResults[i]._id
                            /\ a.originalId = archiveResults[i].originalId
         /\ \E s \in Sales : /\ s._id = archiveResults[i].originalId
                             /\ s.saleDate = archiveResults[i].saleDate
    /\ pc = "done" =>
         Range(result.data) \subseteq Range(primaryResults) \cup Range(archiveResults)

\* A call returned records of both tiers in one page.
C11_Witness ==
  /\ pc = "done"
  /\ \E i, j \in DOMAIN result.data :
       /\ result.data[i].originalId = NoId
       /\ result.data[j].originalId # NoId

\* The bounds of the caller's filter as the routing tests receive them.
StartOf(q) == extractDateRange(q).startDate
EndOf(q) == extractDateRange(q).endDate

C13_QueryChangesNothing ==
  [][(pc # "idle" \/ pc' # "idle") =>
       /\ hot' = hot
       /\ cold' = cold
       /\ pc # "idle" /\ pc' # "idle" => query' = query]_vars

\* A call on both tiers returned records while both stores hold documents
\* that match the caller's filter.
C13_Witness ==
  /\ ReturnedClean
  /\ query.kind = "ops"
  /\ Len(primaryResults) > 0
  /\ Len(archiveResults) > 0
  /\ Matching(hot, query) # {}
  /\ Matching(cold, query) # {}

\* C19 as stated: for a filter with a date bound, both tiers are selected
\* exactly when its range straddles the threshold (start < T and end >= T),
\* so not for a contradictory range with start >= T > end.
C19_BothOnlyWhenStraddling ==
  (/\ Planned
   /\ thrArchive = thrPrimary
   /\ (StartOf(query) # NoDate \/ EndOf(query) # NoDate)) =>
    ((queryArchive /\ queryPrimary) <=> Straddles(query, thrArchive))

\* C19, amended: both tiers are selected exactly when the filter has no date
\* bound, or has both bounds with start before the threshold and end at or
\* after it, or has both bounds with start at or after the threshold and end
\* before it (a contradictory range); the archive test against the threshold
\* of its clock reading, the primary test against that of its own.
C19_BothWhenStraddlingOrContradictory ==
  Planned =>
    LET s == StartOf(query)
        e == EndOf(query)
    IN (queryArchive /\ queryPrimary) <=>
         \/ s = NoDate /\ e = NoDate
         \/ s # NoDate /\ e # NoDate /\ s < thrArchive /\ e >= thrPrimary
         \/ s # NoDate /\ e # NoDate /\ s >= thrPrimary /\ e < thrArchive

\* The plan of a contradictory range selected both tiers.
C19_Witness ==
  /\ Planned
  /\ thrArchive = thrPrimary
  /\ StartOf(query) # NoDate
  /\ EndOf(query) # NoDate
  /\ StartOf(query) >= thrPrimary
  /\ EndOf(query) < thrArchive
  /\ queryArchive
  /\ queryPrimary

\* The archive page as the caller's skip would give it: the archive find
\* with options.skip, its records normalised.
ArchivePageAtSkip(tie) ==
  LET page == Find({ArchiveDoc(a) : a \in cold}, archiveSent, sort, tie, skip,
                   archiveLimit(queryPrimary, limit, Len(primaryResults)))
  IN [i \in 1..Len(page) |-> normalizeArchiveRecord(page[i])]

\* C20: when a call is on both tiers, the caller's skip is applied to the
\* primary sub-query and the same skip to the archive sub-query, however many
\* records the primary returned.
C20_SameSkipOnBothTiers ==
  (ReturnedClean /\ CleanBoth) =>
    /\ \E tie \in {-1, 1} :
         primaryResults =
           Find({PrimaryDoc(h) : h \in hot}, primarySent, sort, tie, skip, limit)
    /\ \E tie \in {-1, 1} : archiveResults = ArchivePageAtSkip(tie)

\* ---------------------------------------------------------------------
\* Properties of the archiver.

\* C14: the archiver is idempotent on a duplicate: whatever runs came
\* before, one stopped between the copy and the delete and run again
\* included, when no run is in progress the archive holds at most one
\* document for each originalId.
C14_OneCopyPerOriginal ==
  apc = "idle" => \A a, b \in cold : a.originalId = b.originalId => a = b

\* C16: a dry run of the archiver changes neither store: the step that
\* enters the dry run and every step taken during it leave the primary and
\* the archive as they are, and the dry run ends the script without entering
\* the archiving loop.
C16_DryRunChangesNothing ==
  [][/\ apc' = "sample" => (hot' = hot /\ cold' = cold)
     /\ apc = "sample" => /\ hot' = hot
                          /\ cold' = cold
                          /\ apc' \in {"sample", "idle"}]_vars

\* A dry run is listing its sample while sales are eligible for archiving.
C16_Witness ==
  /\ apc = "sample"
  /\ Eligible(hot, cutoffDate) # {}

\* C15: the archiving loop goes past the records that fail and always
\* terminates: every run that has started reaches the end of the script,
\* also when every record of a full batch fails to be copied.
C15_RunTerminates == (apc # "idle") ~> (apc = "idle")

\* ---------------------------------------------------------------------
\* Properties of splitQueryByDate.

\* The dates a document can carry.
DocDates == 1..MaxNow
DateDoc(d) == [saleDate |-> d]

\* The threshold splitQueryByDate computed for the call that returned.
SplitThreshold == splitClock[3] - SplitThresholdYears
SplitStart == extractDateRange(splitCaller.saleDate).startDate
SplitEnd == extractDateRange(splitCaller.saleDate).endDate

\* C17: when both tiers are selected for a range (start, end) and the
\* threshold T, the primary sub-filter matches exactly the dates of
\* [max(start, T), end], the archive sub-filter exactly those of
\* [start, min(end, T)), upper bound excluded; and the field that is not the
\* date is the caller's in both sub-filters.
C17_SplitAtThreshold ==
  splitReturned.set =>
    /\ splitReturned.primaryQuery.dealer = splitCaller.dealer
    /\ splitReturned.archiveQuery.dealer = splitCaller.dealer
    /\ (splitReturned.queryBoth /\ SplitStart # NoDate /\ SplitEnd # NoDate) =>
         \A d \in DocDates :
           /\ Matches(DateDoc(d), splitReturned.primaryQuery.saleDate)
                <=> (Max(SplitStart, SplitThreshold) <= d /\ d <= SplitEnd)
           /\ Matches(DateDoc(d), splitReturned.archiveQuery.saleDate)
                <=> (SplitStart <= d /\ d < Min(SplitEnd, SplitThreshold))

\* A range that straddles the threshold was split, its end at or after it.
C17_Witness ==
  /\ splitReturned.set
  /\ splitReturned.queryBoth
  /\ SplitStart # NoDate
  /\ SplitStart < SplitThreshold
  /\ SplitEnd >= SplitThreshold
  /\ splitCaller.dealer # 0

\* C18: the split keeps each bound as inclusive or exclusive as the caller
\* gave it, so that, the clock standing still during the call, the dates
\* matched by the primary sub-filter or by the archive sub-filter are exactly
\* the dates matched by the caller's filter.
C18_SplitKeepsInclusivity ==
  (/\ splitReturned.set
   /\ splitReturned.queryBoth
   /\ \A i \in 1..4 : splitClock[i] = splitClock[1]) =>
    \A d \in DocDates :
      (\/ Matches(DateDoc(d), splitReturned.primaryQuery.saleDate)
       \/ Matches(DateDoc(d), splitReturned.archiveQuery.saleDate))
        <=> Matches(DateDoc(d), splitCaller.saleDate)

\* ---------------------------------------------------------------------
\* Further properties of queryUnifiedSales.

\* The store operations of the archive block.
ArchiveOperations == {"archiveFind", "archiveLookup", "archiveCount"}

\* C21: the archive round trip does not depend on the primary round trip:
\* of two identical calls on both tiers over unchanged stores, whatever the
\* primary returned and whether or not it failed, the archive contributes
\* the same records when its own operations succeeded.
C21_ArchiveIndependentOfPrimary ==
  (/\ pc = "done"
   /\ prev.set
   /\ queryArchive /\ queryPrimary
   /\ prev.queryArchive /\ prev.queryPrimary
   /\ threw \cap ArchiveOperations = {}) =>
    result.fromArchive = prev.fromArchive

\* ---------------------------------------------------------------------
\* Properties of the manual population of archive records.

\* C22: for a batch of N archive records and K requested paths the
\* population issues one batch lookup per path: at most K lookups, whatever
\* N is, for sales, payments and dealer requests alike.
C22_OneLookupPerPath ==
  resolveCall # NoResolve => lookups <= Cardinality(resolveCall.populate)

\* ---------------------------------------------------------------------
\* Properties of extractDateRange.

\* The range extractDateRange gives for the filter of the call that returned.
SplitRange == extractDateRange(splitCaller.saleDate)

\* For each bound given with both operators the exclusive one is returned.
ExclusiveWins ==
  splitCaller.saleDate.kind = "ops" =>
    /\ splitCaller.saleDate.gt # NoDate => SplitRange.startDate = splitCaller.saleDate.gt
    /\ splitCaller.saleDate.gt = NoDate => SplitRange.startDate = splitCaller.saleDate.gte
    /\ splitCaller.saleDate.lt # NoDate => SplitRange.endDate = splitCaller.saleDate.lt
    /\ splitCaller.saleDate.lt = NoDate => SplitRange.endDate = splitCaller.saleDate.lte

\* C23 as stated: when a bound is given with both an inclusive and an
\* exclusive operator extractDateRange returns the value of the exclusive
\* one, and it returns null only when the date field is absent from the
\* filter.
C23_ExclusiveWinsNullOnlyIfAbsent ==
  splitReturned.set =>
    /\ ExclusiveWins
    /\ SplitRange.isNull => splitCaller.saleDate.kind = "absent"

\* C23, amended: the exclusive operator wins, and extractDateRange returns
\* null exactly when the date field is absent from the filter or holds a
\* value that is not truthy.
C23_ExclusiveWinsNullIfNoValue ==
  splitReturned.set =>
    /\ ExclusiveWins
    /\ SplitRange.isNull <=> splitCaller.saleDate.kind \in {"absent", "falsy"}

\* A filter gave both bounds with both operators, with different values.
C23_Witness ==
  /\ splitReturned.set
  /\ splitCaller.saleDate.kind = "ops"
  /\ splitCaller.saleDate.gt # NoDate
  /\ splitCaller.saleDate.gte # NoDate
  /\ splitCaller.saleDate.gt # splitCaller.saleDate.gte
  /\ splitCaller.saleDate.lt # NoDate
  /\ splitCaller.saleDate.lte # NoDate
  /\ splitCaller.saleDate.lt # splitCaller.saleDate.lte

\* ---------------------------------------------------------------------
\* Properties of the routing of payments and dealer requests.

\* The two decisions are those of the range of one date entry alone.
DecidedBy(entry) ==
  LET r == extractDateRange(entry)
  IN /\ routePlan.queryArchive
          = shouldQueryArchive(r.startDate, r.endDate, routePlan.thrArchive)
     /\ routePlan.queryPrimary
          = shouldQueryPrimary(r.startDate, r.endDate, routePlan.thrPrimary)

\* C24 as stated: the range of the designated field (transactionDate,
\* requestedAt) decides the tiers whenever the filter contains that field,
\* and the range of createdAt only when the filter does not contain it; the
\* two ranges are never combined.
C24_DesignatedFieldDecides ==
  routePlan.set =>
    IF routeCaller.designated.kind # "absent"
      THEN DecidedBy(routeCaller.designated)
      ELSE DecidedBy(routeCaller.createdAt)

\* C24, amended: the range of the designated field decides the tiers
\* whenever the filter holds a truthy value for that field, and the range of
\* createdAt when the field is absent or holds a value that is not truthy;
\* the two ranges are never combined.
C24_DesignatedValueDecides ==
  routePlan.set =>
    IF routeCaller.designated.kind \notin {"absent", "falsy"}
      THEN DecidedBy(routeCaller.designated)
      ELSE DecidedBy(routeCaller.createdAt)

\* A filter with ranges on both fields that would be routed differently was
\* routed by its designated field: to the primary alone.
C24_Witness ==
  /\ routePlan.set
  /\ routePlan.thrArchive = routePlan.thrPrimary
  /\ routeCaller.designated.kind = "ops"
  /\ routeCaller.designated.gte # NoDate
  /\ routeCaller.designated.gte >= routePlan.thrPrimary
  /\ routeCaller.designated.lte = NoDate
  /\ routeCaller.createdAt.kind = "ops"
  /\ routeCaller.createdAt.lte # NoDate
  /\ routeCaller.createdAt.lte < routePlan.thrArchive
  /\ routePlan.queryPrimary
  /\ ~routePlan.queryArchive

\* ---------------------------------------------------------------------
\* Properties of the two tiers.

\* C25: the two tiers hold disjoint time ranges: after any sequence of runs
\* of the archiver with the default retention, every record of the archive
\* has a designated timestamp (for a payment its transactionDate) before the
\* current threshold.
C25_ArchiveOlderThanThreshold ==
  \A p \in payCold : p.transactionDate < getArchiveThresholdDate(now)

\* C26: with a limit of at least one, each tier hands the merger at most
\* limit records; in particular the fetch from the archive is bounded by
\* the limit also when the primary returned a full page.
C26_EachTierAtMostLimit ==
  (pc \in {"merge", "done"} /\ limit >= 1) =>
    /\ Len(primaryResults) <= limit
    /\ Len(archiveResults) <= limit

\* C27: in the returned object fromPrimary plus fromArchive is the number
\* of records in data.
C27_CountsAddUpToData ==
  ReturnedClean => result.fromPrimary + result.fromArchive = Len(result.data)

\* C28: within one federated call the decision on the archive and the
\* decision on the primary use the same threshold value, even though the
\* clock may advance while the call runs.
C28_OneThresholdPerCall ==
  (pc \in {"primaryCount", "primaryFind", "archiveFind", "archiveCount", "merge", "done"}) =>
    thrArchive = thrPrimary

\* C29: the archiver never loses a record: at every point during and after
\* a run, a stop between any two steps and the duplicate-key branch
\* included, every sale that was in the primary before the run is in the
\* primary or has a copy in the archive whose originalId is its id.
C29_NoRecordLost ==
  \A s \in Sales :
    \/ s \in hot
    \/ \E a \in cold : a.originalId = s._id /\ a.saleDate = s.saleDate

\* A run was stopped between the copy and the delete of one sale after it
\* had moved another one.
C29_Witness ==
  /\ apc = "idle"
  /\ \E s \in Sales : s \in hot /\ \E a \in cold : a.originalId = s._id
  /\ \E s \in Sales : s \notin hot /\ \E a \in cold : a.originalId = s._id

\* ---------------------------------------------------------------------
\* Properties of the cache.

SpecCache == Init /\ [][NextCache]_vars

\* The latest set of key k replaced a value whose TTL had not elapsed, and
\* its own TTL, if it has one, has not elapsed.
SetAgainAndLive(k) ==
  /\ lastSet[k] # NoSet
  /\ lastSet[k].before
  /\ lastSet[k].ttl # 0 => dateNow < lastSet[k].at + lastSet[k].ttl * MsPerSecond

\* C30: after set(k, v1, ttl1) and then set(k, v2, ttl2) before ttl1 has
\* elapsed, the first timer never removes the newer value: get(k) returns
\* v2 until ttl2 has elapsed since the second set, and with no TTL on the
\* second set until the key is deleted or the cache cleared.
C30_SecondSetOutlivesFirstTimer ==
  \A k \in Keys : SetAgainAndLive(k) => getValue(store, k, dateNow) = lastSet[k].value

\* get returned the newer value at a time when the timer of the first set
\* would have run.
C30_Witness ==
  \E k \in Keys :
    /\ SetAgainAndLive(k)
    /\ dateNow >= lastSet[k].firstDue
    /\ got = [key |-> k, value |-> lastSet[k].value]

====
